---- MODULE Spec2Model ----
(***************************************************************************)
(* Model of 02-moocoin/ctl.py: the AppObject keystore (create_account,     *)
(* get_account, load_accounts) and the commands mint, create_account,      *)
(* fund_account, list_accounts and approve_coin.  Every run of the program  *)
(* is one operating-system process that executes one command; the runs     *)
(* share one keystore directory, one ledger node and one faucet and may    *)
(* overlap in time.  The ledger node and the faucet are opaque: every call *)
(* to them either returns or raises.                                       *)
(***************************************************************************)
EXTENDS Integers, Sequences, FiniteSets, TLC

\* ------------------------------------------------------------------ bounds
\* number of runs of the program (processes), each executing one command
NumProcs == 2
\* depth of the deepest directory of the file system
MaxDepth == 2

Procs == 1..NumProcs

\* ------------------------------------------------------- names and paths
ROOT == <<"r", "o", "o", "t">>
JSON_SUFFIX == <<".", "j", "s", "o", "n">>

\* account names given on the command line (strings as character sequences)
Names == {<< >>, <<"a">>, ROOT}

\* fund amounts given to create_account on the command line
Amounts == {0, 1}

\* amounts given to mint and fund_account on the command line
TransferAmounts == {1}

\* self._keys_dir / f"{name}.json", as the file name inside _keys_dir
KeyPath(name) == name \o JSON_SUFFIX

\* fnmatch of a directory entry against the pattern "*.json"
GlobMatch(f) ==
    /\ Len(f) >= Len(JSON_SUFFIX)
    /\ SubSeq(f, Len(f) - Len(JSON_SUFFIX) + 1, Len(f)) = JSON_SUFFIX

\* str.rfind(".") on a file name, 1-based; 0 when there is no dot
RFindDot(f) ==
    LET dots == {i \in 1..Len(f) : f[i] = "."}
    IN  IF dots = {} THEN 0 ELSE CHOOSE i \in dots : \A j \in dots : j <= i

\* PurePath.stem: the final component without its last suffix; a leading
\* or a trailing dot does not start a suffix
Stem(f) ==
    LET i == RFindDot(f)
    IN  IF 1 < i /\ i < Len(f) THEN SubSeq(f, 1, i - 1) ELSE f

\* ---------------------------------------------------------------- accounts
\* Account: an address derived from a private key
AddressOf(private_key) == 100 + private_key

Account(private_key) ==
    [address |-> AddressOf(private_key), private_key |-> private_key]

\* variant of Account.generate with a fixed seed: always the same key
GenerateSameKey(p) == Account(1)

\* Account.generate in process p: a key no other process generates
Generate(p) == Account(p)

\* the Optional[Account] value None
None == [address |-> -1, private_key |-> -1]

\* AppObject.root, loaded from the profile's private_key
root == Account(0)

Addresses == {AddressOf(k) : k \in 0..NumProcs}

\* variant of Store that serialises the profile's root key
StoreRootKey(acc) ==
    [account_address |-> AddressOf(0), private_key |-> 0]

\* Account.store / Account.load: the JSON document of a key file
Store(acc) ==
    [account_address |-> acc.address, private_key |-> acc.private_key]

Load(doc) ==
    [address |-> doc.account_address, private_key |-> doc.private_key]

\* --------------------------------------------------- find_config_dir
\* names of directories; a path is the sequence of names from the root
DirNames == {"d"}

RECURSIVE PathsOfDepth(_)
PathsOfDepth(n) ==
    IF n = 0 THEN {<< >>}
    ELSE {Append(d, x) : d \in PathsOfDepth(n - 1), x \in DirNames}

\* the directories of the file system
Dirs == UNION {PathsOfDepth(n) : n \in 0..MaxDepth}

APTOS == ".aptos"

\* the Optional[Path] values: None and a path
NoPath == [found |-> FALSE, path |-> << >>]
SomePath(path) == [found |-> TRUE, path |-> path]

\* variant of Path.parents that lists the ancestors from the root inwards
ParentsFromRoot(d) == [i \in 1..Len(d) |-> SubSeq(d, 1, i - 1)]

\* Path.parents: the ancestors of d, the nearest first, the root last
Parents(d) == [i \in 1..Len(d) |-> SubSeq(d, 1, Len(d) - i)]

\* needle.exists(), when `holders` are the directories with that entry
Exists(needle, cfg_name, holders) ==
    \E d \in holders : needle = Append(d, cfg_name)

RECURSIVE FirstExisting(_, _, _)
FirstExisting(ds, cfg_name, holders) ==
    IF ds = << >> THEN NoPath
    ELSE LET needle == Append(Head(ds), cfg_name)
         IN  IF Exists(needle, cfg_name, holders) THEN SomePath(needle)
             ELSE FirstExisting(Tail(ds), cfg_name, holders)

\* find_config_dir: for d in chain((start,), start.parents)
find_config_dir(start, cfg_name, holders) ==
    FirstExisting(<<start>> \o Parents(start), cfg_name, holders)

\* ------------------------------------------- get_aptos_profile_config
\* values of a YAML document: null (None), a string, a mapping
Null == [kind |-> "null", str |-> << >>, items |-> << >>]
Str(chars) == [kind |-> "str", str |-> chars, items |-> << >>]
Map(items) == [kind |-> "map", str |-> << >>, items |-> items]

\* toolz.get_in(keys, coll): a missing key or a value that cannot be
\* indexed gives the default, None
RECURSIVE get_in(_, _)
get_in(keys, coll) ==
    IF keys = << >> THEN coll
    ELSE IF coll.kind = "map" /\ Head(keys) \in DOMAIN coll.items
         THEN get_in(Tail(keys), coll.items[Head(keys)])
         ELSE Null

\* variant of the test of cfg that only recognises None
FalsyOnlyNone(value) == value = Null

\* bool(value) is False: None, the empty string, the empty mapping
Falsy(value) ==
    \/ value = Null
    \/ value.kind = "str" /\ value.str = << >>
    \/ value.kind = "map" /\ DOMAIN value.items = {}

\* str.rstrip("/")
RECURSIVE RStrip(_)
RStrip(chars) ==
    IF chars # << >> /\ chars[Len(chars)] = "/"
    THEN RStrip(SubSeq(chars, 1, Len(chars) - 1))
    ELSE chars

\* the state of <aptos_dir>/config.yaml
Missing == [kind |-> "missing", doc |-> Null]
Unparsable == [kind |-> "unparsable", doc |-> Null]
Yaml(doc) == [kind |-> "yaml", doc |-> doc]

NODE_URL == <<"n", "/">>
FAUCET_URL == <<"f", "/", "/">>

FullProfile ==
    Map([k \in {"rest_url", "faucet_url", "private_key"} |->
            IF k = "rest_url" THEN Str(NODE_URL)
            ELSE IF k = "faucet_url" THEN Str(FAUCET_URL)
            ELSE Str(<<"0">>)])

PartialProfile == Map([k \in {"rest_url"} |-> Str(NODE_URL)])

\* what a document may hold under profiles.default
ProfileValues == {Null, Map(<< >>), Str(<<"x">>), PartialProfile, FullProfile}

Documents ==
    {Null, Map(<< >>), Map([k \in {"profiles"} |-> Null]),
     Map([k \in {"profiles"} |-> Map(<< >>)])}
        \cup {Map([k \in {"profiles"} |-> Map([n \in {"default"} |-> v])]) :
                 v \in ProfileValues}

ConfigFiles == {Missing, Unparsable} \cup {Yaml(doc) : doc \in Documents}

\* values of the --profile option
ProfileNames == {"default", "other"}

VARIABLES
    cwd,        \* Path.cwd() of the process that starts up
    aptos_dirs, \* the directories that have an entry ".aptos"
    config_file, \* the state of config.yaml in the .aptos directory
    profile,    \* the --profile option
    stage,      \* how far app_callback has come
    aptos_dir,  \* AppObject.create: result of find_aptos_dir
    cfg,        \* AppObject.create: result of get_aptos_profile_config
    startup,    \* how app_callback ended, "AppObject" on success
    rest_url,   \* base url of the RestClient that was built
    keys_dir,   \* whether the directory _keys_dir exists
    files,      \* file name in _keys_dir -> JSON document
    ledger,     \* tx_hash -> transaction the node accepted
    balance,    \* address -> coin balance on the ledger
    cmd,        \* per process: the command it runs, with its arguments
    todo,       \* per process: the steps its command still has to take
    acc,        \* per process: the local variable acc / to_acc / account
    tx_hash,    \* per process: the local variable tx_hash
    trace,      \* per process: calls and file writes of its command so far
    outcome,    \* per process: how its last command ended
    created,    \* create_account calls that returned: [name, address]
    accounts,   \* per process: list_accounts' dict, as <<name, Account>> pairs
    futures,    \* per process: the futures of pool.map, in submission order
    completed,  \* per process: indices of the futures in completion order
    table       \* per process: rows printed by list_accounts

cfgVars == <<cwd, aptos_dirs, config_file, profile, stage, aptos_dir, cfg,
             startup, rest_url>>

vars == <<cwd, aptos_dirs, config_file, profile, stage, aptos_dir, cfg,
          startup, rest_url, keys_dir, files, ledger, balance, cmd, todo, acc,
          tx_hash, trace, outcome, created, accounts, futures, completed,
          table>>

sharedVars == <<keys_dir, files, ledger, balance>>
poolVars == <<accounts, futures, completed, table>>

NoCmd == [op |-> "none", name |-> << >>, amount |-> 0]

\* the state app_callback leaves when it built the AppObject
Constructed ==
    /\ cwd = << >>
    /\ aptos_dirs = {<< >>}
    /\ config_file = Yaml(Map([k \in {"profiles"} |->
                                 Map([n \in {"default"} |-> FullProfile])]))
    /\ profile = "default"
    /\ stage = "done"
    /\ aptos_dir = SomePath(<<APTOS>>)
    /\ cfg = FullProfile
    /\ startup = "AppObject"
    /\ rest_url = RStrip(NODE_URL)

\* no command has run yet: empty keystore, empty ledger
NoRuns ==
    /\ keys_dir = FALSE
    /\ files = << >>
    /\ ledger = << >>
    /\ balance = [a \in Addresses |-> 0]
    /\ cmd = [p \in Procs |-> NoCmd]
    /\ todo = [p \in Procs |-> << >>]
    /\ acc = [p \in Procs |-> None]
    /\ tx_hash = [p \in Procs |-> 0]
    /\ trace = [p \in Procs |-> << >>]
    /\ outcome = [p \in Procs |-> "none"]
    /\ created = {}
    /\ accounts = [p \in Procs |-> << >>]
    /\ futures = [p \in Procs |-> << >>]
    /\ completed = [p \in Procs |-> << >>]
    /\ table = [p \in Procs |-> << >>]

Init == Constructed /\ NoRuns

\* ------------------------------------------------------- keystore lookups
\* variant of KeyExists that tests the name without its ".json" suffix
KeyExistsNoSuffix(name) == keys_dir /\ name \in DOMAIN files

\* key_path.exists()
KeyExists(name) == keys_dir /\ KeyPath(name) \in DOMAIN files

\* variant of get_account that falls back to the root account
GetAccountOrRoot(name) ==
    IF name # ROOT /\ KeyExists(name) THEN Load(files[KeyPath(name)])
    ELSE root

\* AppObject.get_account
GetAccount(name) ==
    IF name = ROOT THEN root
    ELSE IF KeyExists(name) THEN Load(files[KeyPath(name)])
    ELSE None

\* result[name] = acc on a dict kept as a sequence of <<key, value>> pairs:
\* an existing key keeps its position, a new key goes last
DictSet(d, k, v) ==
    IF \E i \in 1..Len(d) : d[i][1] = k
    THEN [i \in 1..Len(d) |-> IF d[i][1] = k THEN <<k, v>> ELSE d[i]]
    ELSE Append(d, <<k, v>>)

DictKeys(d) == {d[i][1] : i \in 1..Len(d)}

\* the orders in which self._keys_dir.glob("*.json") may yield the entries
GlobOrders ==
    LET matching == {f \in DOMAIN files : GlobMatch(f)}
    IN  {s \in [1..Cardinality(matching) -> matching] :
            \A i, j \in 1..Cardinality(matching) : i # j => s[i] # s[j]}

RECURSIVE LoadInto(_, _)
LoadInto(result, key_files) ==
    IF key_files = << >> THEN result
    ELSE LoadInto(DictSet(result, Stem(Head(key_files)),
                          Load(files[Head(key_files)])),
                  Tail(key_files))

\* variant of load_accounts that adds the root account after the key files
LoadAccountsRootLast(key_files) ==
    IF keys_dir THEN DictSet(LoadInto(<< >>, key_files), ROOT, root)
    ELSE << <<ROOT, root>> >>

\* AppObject.load_accounts, for one enumeration order of the directory
LoadAccounts(key_files) ==
    IF keys_dir THEN LoadInto(<< <<ROOT, root>> >>, key_files)
    ELSE << <<ROOT, root>> >>

\* ------------------------------------------------------ steps and results
Event(call, address, amount) ==
    [call |-> call, address |-> address, amount |-> amount]

Calls(p) == {trace[p][i].call : i \in 1..Len(trace[p])}

\* first position of a call in the trace of p, 0 when it was not made
Pos(p, call) ==
    LET at == {i \in 1..Len(trace[p]) : trace[p][i].call = call}
    IN  IF at = {} THEN 0 ELSE CHOOSE i \in at : \A j \in at : i <= j

\* variant of create_account that does not wait for the confirmation
CreateStepsNoWait(fund_amount) ==
    <<"submit">>
        \o (IF fund_amount > 0 THEN <<"fund">> ELSE << >>)
        \o <<"mkdir", "store">>

\* variant of create_account that stores the key before the confirmation
CreateStepsStoreFirst(fund_amount) ==
    <<"submit", "mkdir", "store", "wait">>
        \o (IF fund_amount > 0 THEN <<"fund">> ELSE << >>)

\* variant of create_account that calls the faucet whatever the amount
CreateStepsFundAlways(fund_amount) ==
    <<"submit", "wait", "fund", "mkdir", "store">>

\* the statements of create_account after Account.generate, in program order
CreateSteps(fund_amount) ==
    <<"submit", "wait">>
        \o (IF fund_amount > 0 THEN <<"fund">> ELSE << >>)
        \o <<"mkdir", "store">>

Running(p, op, step) ==
    /\ todo[p] # << >>
    /\ cmd[p].op = op
    /\ Head(todo[p]) = step

\* process p is started with command c; processes are interchangeable, so
\* they are numbered in the order in which they start
Start(p, c) ==
    /\ cmd[p] = NoCmd
    /\ \A q \in Procs : q < p => cmd[q] # NoCmd
    /\ cmd' = [cmd EXCEPT ![p] = c]
    /\ trace' = [trace EXCEPT ![p] = << >>]

\* the current step of p returned: p goes on, or its command returns
Advance(p) ==
    /\ todo' = [todo EXCEPT ![p] = Tail(todo[p])]
    /\ outcome' = [outcome EXCEPT
                     ![p] = IF Tail(todo[p]) = << >> THEN "ok" ELSE "running"]
    /\ created' = IF Tail(todo[p]) = << >> /\ cmd[p].op = "create_account"
                  THEN created \cup {[name |-> cmd[p].name,
                                      address |-> acc[p].address]}
                  ELSE created

\* the current step of p raised: the exception ends the command
Raise(p, error) ==
    /\ todo' = [todo EXCEPT ![p] = << >>]
    /\ outcome' = [outcome EXCEPT ![p] = error]
    /\ UNCHANGED created

Log(p, event) == trace' = [trace EXCEPT ![p] = Append(trace[p], event)]

\* the hash of the transaction process p submits
TxHash(p) == p

\* client.submit_transaction / submit_bcs_transaction accepted by the node
Accept(p, sender, function, arguments) ==
    /\ ledger' = (TxHash(p) :> [sender |-> sender, function |-> function,
                                arguments |-> arguments,
                                status |-> "pending"]) @@ ledger
    /\ tx_hash' = [tx_hash EXCEPT ![p] = TxHash(p)]

\* client.wait_for_transaction: the transaction ends with this status
Settle(p, status) ==
    ledger' = [ledger EXCEPT ![tx_hash[p]].status = status]

\* --------------------------------------------- AppObject.create_account
\* variant of the reserved-name test that compares with "Root"
ReservedCapitalised(name) == name = <<"R", "o", "o", "t">>

\* assert name != "root": the name the assertion rejects
Reserved(name) == name = ROOT

CreateAccountBegin(p, name, fund_amount) ==
    /\ Start(p, [op |-> "create_account", name |-> name,
                 amount |-> fund_amount])
    /\ IF Reserved(name)
       THEN /\ Raise(p, "ReservedName")
            /\ UNCHANGED acc
       ELSE IF KeyExists(name)
       THEN /\ Raise(p, "AccountAlreadyExists")
            /\ UNCHANGED acc
       ELSE /\ acc' = [acc EXCEPT ![p] = Generate(p)]
            /\ todo' = [todo EXCEPT ![p] = CreateSteps(fund_amount)]
            /\ outcome' = [outcome EXCEPT ![p] = "running"]
            /\ UNCHANGED created
    /\ UNCHANGED <<sharedVars, tx_hash, poolVars>>
    /\ UNCHANGED cfgVars

CreateSubmit(p) ==
    /\ Running(p, "create_account", "submit")
    /\ Log(p, Event("submit_transaction", acc[p].address, 0))
    /\ \/ /\ Accept(p, root.address,
                    "0x01::aptos_account::create_account",
                    <<acc[p].address>>)
          /\ Advance(p)
       \/ /\ Raise(p, "TransactionFailed")
          /\ UNCHANGED <<ledger, tx_hash>>
    /\ UNCHANGED <<keys_dir, files, balance, cmd, acc,
                   poolVars>>
    /\ UNCHANGED cfgVars

CreateWait(p) ==
    /\ Running(p, "create_account", "wait")
    /\ Log(p, Event("wait_for_transaction", acc[p].address, 0))
    /\ \/ /\ Settle(p, "success")
          /\ Advance(p)
       \/ /\ Raise(p, "TransactionFailed")
          /\ UNCHANGED ledger
    /\ UNCHANGED <<keys_dir, files, balance, cmd, acc,
                   tx_hash, poolVars>>
    /\ UNCHANGED cfgVars

CreateFund(p) ==
    /\ Running(p, "create_account", "fund")
    /\ Log(p, Event("fund_account", acc[p].address, cmd[p].amount))
    /\ \/ /\ balance' = [balance EXCEPT
                           ![acc[p].address] = @ + cmd[p].amount]
          /\ Advance(p)
       \/ /\ Raise(p, "FundingFailed")
          /\ UNCHANGED balance
    /\ UNCHANGED <<keys_dir, files, ledger, cmd, acc,
                   tx_hash, poolVars>>
    /\ UNCHANGED cfgVars

CreateMkdir(p) ==
    /\ Running(p, "create_account", "mkdir")
    /\ Log(p, Event("mkdir", acc[p].address, 0))
    /\ keys_dir' = TRUE
    /\ Advance(p)
    /\ UNCHANGED <<files, ledger, balance, cmd, acc,
                   tx_hash, poolVars>>
    /\ UNCHANGED cfgVars

\* acc.store(key_path): open(path, "w") creates or truncates the file
WriteFile(fs, path, doc) ==
    [f \in DOMAIN fs \cup {path} |-> IF f = path THEN doc ELSE fs[f]]

CreateStore(p) ==
    /\ Running(p, "create_account", "store")
    /\ Log(p, Event("store", acc[p].address, 0))
    /\ IF keys_dir
       THEN /\ files' = WriteFile(files, KeyPath(cmd[p].name), Store(acc[p]))
            /\ Advance(p)
       ELSE /\ Raise(p, "FileNotFoundError")
            /\ UNCHANGED files
    /\ UNCHANGED <<keys_dir, ledger, balance, cmd, acc,
                   tx_hash, poolVars>>
    /\ UNCHANGED cfgVars

\* ------------------------------------------------------------------ mint
MintBegin(p, amount, to) ==
    /\ Start(p, [op |-> "mint", name |-> to, amount |-> amount])
    /\ LET to_acc == GetAccount(to)
       IN  /\ acc' = [acc EXCEPT ![p] = to_acc]
           /\ IF to_acc = None
              THEN Raise(p, "AccountNotFound")
              ELSE /\ todo' = [todo EXCEPT ![p] = <<"submit", "wait">>]
                   /\ outcome' = [outcome EXCEPT ![p] = "running"]
                   /\ UNCHANGED created
    /\ UNCHANGED <<sharedVars, tx_hash, poolVars>>
    /\ UNCHANGED cfgVars

MintSubmit(p) ==
    /\ Running(p, "mint", "submit")
    /\ Log(p, Event("submit_transaction", acc[p].address, cmd[p].amount))
    /\ \/ /\ Accept(p, root.address, "MooCoin::mint",
                    <<cmd[p].amount, acc[p].address>>)
          /\ Advance(p)
       \/ /\ Raise(p, "TransactionFailed")
          /\ UNCHANGED <<ledger, tx_hash>>
    /\ UNCHANGED <<keys_dir, files, balance, cmd, acc,
                   poolVars>>
    /\ UNCHANGED cfgVars

MintWait(p) ==
    /\ Running(p, "mint", "wait")
    /\ Log(p, Event("wait_for_transaction", acc[p].address, cmd[p].amount))
    /\ \/ /\ Settle(p, "success")
          /\ Advance(p)
       \/ /\ Raise(p, "TransactionFailed")
          /\ UNCHANGED ledger
    /\ UNCHANGED <<keys_dir, files, balance, cmd, acc,
                   tx_hash, poolVars>>
    /\ UNCHANGED cfgVars

\* ---------------------------------------------------------- fund_account
FundAccountBegin(p, name, amount) ==
    /\ Start(p, [op |-> "fund_account", name |-> name, amount |-> amount])
    /\ LET account == GetAccount(name)
       IN  /\ acc' = [acc EXCEPT ![p] = account]
           /\ IF account = None
              THEN Raise(p, "AccountNotFound")
              ELSE /\ todo' = [todo EXCEPT ![p] = <<"fund">>]
                   /\ outcome' = [outcome EXCEPT ![p] = "running"]
                   /\ UNCHANGED created
    /\ UNCHANGED <<sharedVars, tx_hash, poolVars>>
    /\ UNCHANGED cfgVars

FundAccountFund(p) ==
    /\ Running(p, "fund_account", "fund")
    /\ Log(p, Event("fund_account", acc[p].address, cmd[p].amount))
    /\ \/ /\ balance' = [balance EXCEPT
                           ![acc[p].address] = @ + cmd[p].amount]
          /\ Advance(p)
       \/ /\ Raise(p, "FundingFailed")
          /\ UNCHANGED balance
    /\ UNCHANGED <<keys_dir, files, ledger, cmd, acc,
                   tx_hash, poolVars>>
    /\ UNCHANGED cfgVars

\* ---------------------------------------------------------- approve_coin
ApproveCoinBegin(p, account_name) ==
    /\ Start(p, [op |-> "approve_coin", name |-> account_name, amount |-> 0])
    /\ LET account == GetAccount(account_name)
       IN  /\ acc' = [acc EXCEPT ![p] = account]
           /\ IF account = None
              THEN Raise(p, "AccountNotFound")
              ELSE /\ todo' = [todo EXCEPT ![p] = <<"submit", "wait">>]
                   /\ outcome' = [outcome EXCEPT ![p] = "running"]
                   /\ UNCHANGED created
    /\ UNCHANGED <<sharedVars, tx_hash, poolVars>>
    /\ UNCHANGED cfgVars

\* create_single_signer_bcs_transaction, then submit_bcs_transaction
ApproveCoinSubmit(p) ==
    /\ Running(p, "approve_coin", "submit")
    /\ \/ /\ Log(p, Event("create_single_signer_bcs_transaction",
                          acc[p].address, 0))
          /\ Raise(p, "TransactionFailed")
          /\ UNCHANGED <<ledger, tx_hash>>
       \/ /\ trace' = [trace EXCEPT ![p] = trace[p] \o
                <<Event("create_single_signer_bcs_transaction",
                        acc[p].address, 0),
                  Event("submit_bcs_transaction", acc[p].address, 0)>>]
          /\ \/ /\ Accept(p, acc[p].address, "MooCoin::register", << >>)
                /\ Advance(p)
             \/ /\ Raise(p, "TransactionFailed")
                /\ UNCHANGED <<ledger, tx_hash>>
    /\ UNCHANGED <<keys_dir, files, balance, cmd, acc,
                   poolVars>>
    /\ UNCHANGED cfgVars

ApproveCoinWait(p) ==
    /\ Running(p, "approve_coin", "wait")
    /\ Log(p, Event("wait_for_transaction", acc[p].address, 0))
    /\ \/ /\ Settle(p, "success")
          /\ Advance(p)
       \/ /\ Raise(p, "TransactionFailed")
          /\ UNCHANGED ledger
    /\ UNCHANGED <<keys_dir, files, balance, cmd, acc,
                   tx_hash, poolVars>>
    /\ UNCHANGED cfgVars

\* --------------------------------------------------------- list_accounts
\* ThreadPoolExecutor(max_workers=10)
max_workers == 10

NoResult == [value |-> -1, of |-> -1]
Failed == [value |-> -2, of |-> -2]

\* variant of list_accounts whose load_accounts creates the directory
ListAccountsBeginMkdir(p) ==
    /\ Start(p, [op |-> "list_accounts", name |-> << >>, amount |-> 0])
    /\ \E key_files \in GlobOrders :
           accounts' = [accounts EXCEPT ![p] = LoadAccounts(key_files)]
    /\ futures' = [futures EXCEPT ![p] = << >>]
    /\ completed' = [completed EXCEPT ![p] = << >>]
    /\ table' = [table EXCEPT ![p] = << >>]
    /\ todo' = [todo EXCEPT ![p] = <<"map", "print">>]
    /\ outcome' = [outcome EXCEPT ![p] = "running"]
    /\ keys_dir' = TRUE
    /\ UNCHANGED <<files, ledger, balance, acc, tx_hash, created>>
    /\ UNCHANGED cfgVars

ListAccountsBegin(p) ==
    /\ Start(p, [op |-> "list_accounts", name |-> << >>, amount |-> 0])
    /\ \E key_files \in GlobOrders :
           accounts' = [accounts EXCEPT ![p] = LoadAccounts(key_files)]
    /\ futures' = [futures EXCEPT ![p] = << >>]
    /\ completed' = [completed EXCEPT ![p] = << >>]
    /\ table' = [table EXCEPT ![p] = << >>]
    /\ todo' = [todo EXCEPT ![p] = <<"map", "print">>]
    /\ outcome' = [outcome EXCEPT ![p] = "running"]
    /\ UNCHANGED <<sharedVars, acc, tx_hash, created>>
    /\ UNCHANGED cfgVars

\* pool.map(get_balance, accounts.values()): one future per value, in order
PoolMap(p) ==
    /\ Running(p, "list_accounts", "map")
    /\ futures' = [futures EXCEPT ![p] =
           [i \in 1..Len(accounts[p]) |->
               [state |-> "PENDING", arg |-> accounts[p][i][2],
                result |-> NoResult]]]
    /\ Advance(p)
    /\ UNCHANGED <<sharedVars, cmd, acc, tx_hash, trace,
                   accounts, completed, table>>
    /\ UNCHANGED cfgVars

\* a worker thread takes the oldest queued work item
WorkerStart(p, i) ==
    /\ Running(p, "list_accounts", "print")
    /\ i \in 1..Len(futures[p])
    /\ futures[p][i].state = "PENDING"
    /\ \A j \in 1..(i - 1) : futures[p][j].state # "PENDING"
    /\ Cardinality({j \in 1..Len(futures[p]) :
                       futures[p][j].state = "RUNNING"}) < max_workers
    /\ futures' = [futures EXCEPT ![p][i].state = "RUNNING"]
    /\ UNCHANGED <<sharedVars, cmd, todo, acc, tx_hash,
                   trace, outcome, created, accounts, completed, table>>
    /\ UNCHANGED cfgVars

\* get_balance(a): client.account_balance(a.address()) returns or raises
WorkerFinish(p, i) ==
    /\ Running(p, "list_accounts", "print")
    /\ i \in 1..Len(futures[p])
    /\ futures[p][i].state = "RUNNING"
    /\ LET a == futures[p][i].arg
       IN  /\ Log(p, Event("account_balance", a.address, 0))
           /\ \E r \in {[value |-> balance[a.address], of |-> a.address],
                        Failed} :
                  futures' = [futures EXCEPT ![p][i] =
                                 [state |-> "FINISHED", arg |-> a,
                                  result |-> r]]
    /\ completed' = [completed EXCEPT ![p] = Append(completed[p], i)]
    /\ UNCHANGED <<sharedVars, cmd, todo, acc, tx_hash,
                   outcome, created, accounts, table>>
    /\ UNCHANGED cfgVars

\* variant of the result iterator that yields results as they complete
BalancesAsCompleted(fs, done) == [i \in 1..Len(fs) |-> fs[done[i]].result]

\* the iterator pool.map returns: the results in submission order
Balances(fs, done) == [i \in 1..Len(fs) |-> fs[i].result]

\* leaving the with block joins the workers; then the rows are zipped
ListAccountsPrint(p) ==
    /\ Running(p, "list_accounts", "print")
    /\ \A i \in 1..Len(futures[p]) : futures[p][i].state = "FINISHED"
    /\ LET balances == Balances(futures[p], completed[p])
       IN  IF \E i \in 1..Len(balances) : balances[i] = Failed
           THEN /\ Raise(p, "BalanceQueryFailed")
                /\ UNCHANGED table
           ELSE /\ table' = [table EXCEPT ![p] =
                       [i \in 1..Len(accounts[p]) |->
                           [name |-> accounts[p][i][1],
                            address |-> accounts[p][i][2].address,
                            balance |-> balances[i]]]]
                /\ Advance(p)
    /\ UNCHANGED <<sharedVars, cmd, acc, tx_hash, trace,
                   accounts, futures, completed>>
    /\ UNCHANGED cfgVars

\* the process is killed between two steps of create_account.  (A killed
\* process takes no further step; the other commands write nothing locally,
\* so killing them is the same as their process never running again.)
Crash(p) ==
    /\ todo[p] # << >>
    /\ cmd[p].op = "create_account"
    /\ Raise(p, "crash")
    /\ UNCHANGED <<sharedVars, cmd, acc, tx_hash, trace,
                   poolVars>>
    /\ UNCHANGED cfgVars

Next ==
    \E p \in Procs :
        \/ \E name \in Names, fund_amount \in Amounts :
               CreateAccountBegin(p, name, fund_amount)
        \/ CreateSubmit(p)
        \/ CreateWait(p)
        \/ CreateFund(p)
        \/ CreateMkdir(p)
        \/ CreateStore(p)
        \/ \E amount \in TransferAmounts, to \in Names : MintBegin(p, amount, to)
        \/ MintSubmit(p)
        \/ MintWait(p)
        \/ \E name \in Names, amount \in TransferAmounts :
               FundAccountBegin(p, name, amount)
        \/ FundAccountFund(p)
        \/ \E account_name \in Names : ApproveCoinBegin(p, account_name)
        \/ ApproveCoinSubmit(p)
        \/ ApproveCoinWait(p)
        \/ ListAccountsBegin(p)
        \/ PoolMap(p)
        \/ \E i \in 1..NumProcs : WorkerStart(p, i)
        \/ \E i \in 1..NumProcs : WorkerFinish(p, i)
        \/ ListAccountsPrint(p)
        \/ Crash(p)

Spec == Init /\ [][Next]_vars

\* ------------------------------------- app_callback / AppObject.create
mainVars == <<keys_dir, files, ledger, balance, cmd, todo, acc, tx_hash,
              trace, outcome, created, accounts, futures, completed, table>>

\* a process starts up in some directory of some file system
InitConfig ==
    /\ cwd \in Dirs
    /\ aptos_dirs \in SUBSET Dirs
    /\ config_file \in ConfigFiles
    /\ profile \in ProfileNames
    /\ stage = "start"
    /\ aptos_dir = NoPath
    /\ cfg = Null
    /\ startup = "none"
    /\ rest_url = << >>
    /\ NoRuns

\* app_callback ends with this exception or with the AppObject
Finish(result) ==
    /\ startup' = result
    /\ stage' = "done"

\* find_aptos_dir, and the test of its result in AppObject.create
FindAptosDir ==
    /\ stage = "start"
    /\ aptos_dir' = find_config_dir(cwd, APTOS, aptos_dirs)
    /\ IF aptos_dir'.found
       THEN stage' = "load" /\ UNCHANGED startup
       ELSE Finish("SdkDirNotFound")
    /\ UNCHANGED <<cwd, aptos_dirs, config_file, profile, cfg, rest_url,
                   mainVars>>

\* get_aptos_profile_config: open, yaml.safe_load, get_in, assert
GetAptosProfileConfig ==
    /\ stage = "load"
    /\ IF config_file.kind = "missing"
       THEN Finish("FileNotFoundError") /\ UNCHANGED cfg
       ELSE IF config_file.kind = "unparsable"
       THEN Finish("YAMLError") /\ UNCHANGED cfg
       ELSE LET c == get_in(<<"profiles", profile>>, config_file.doc)
            IN  IF c = Null \/ c.kind = "map"
                THEN /\ cfg' = c
                     /\ stage' = "create"
                     /\ UNCHANGED startup
                ELSE Finish("AssertionError") /\ UNCHANGED cfg
    /\ UNCHANGED <<cwd, aptos_dirs, config_file, profile, aptos_dir,
                   rest_url, mainVars>>

\* AppObject.create after the profile was read: the clients and the root key
CreateAppObject ==
    /\ stage = "create"
    /\ IF Falsy(cfg)
       THEN Finish("ProfileNotFound") /\ UNCHANGED rest_url
       ELSE IF {"rest_url", "faucet_url", "private_key"}
                   \subseteq DOMAIN cfg.items
       THEN /\ rest_url' = RStrip(cfg.items["rest_url"].str)
            /\ Finish("AppObject")
       ELSE Finish("KeyError") /\ UNCHANGED rest_url
    /\ UNCHANGED <<cwd, aptos_dirs, config_file, profile, aptos_dir, cfg,
                   mainVars>>

NextConfig ==
    \/ FindAptosDir
    \/ GetAptosProfileConfig
    \/ CreateAppObject

SpecConfig == InitConfig /\ [][NextConfig]_vars

\* ------------------------------------------------------------------ claims
CREATE_FN == "0x01::aptos_account::create_account"

\* the address confirmed as created on the ledger
ConfirmedOnChain(address) ==
    \E h \in DOMAIN ledger :
        /\ ledger[h].function = CREATE_FN
        /\ ledger[h].arguments = <<address>>
        /\ ledger[h].status = "success"

IsCreate(p) == cmd[p].op = "create_account"

\* C1: every key file in the keystore directory holds an account whose
\* create-account transaction was submitted and confirmed on the ledger,
\* whatever creates failed or crashed before.
C1_PersistAfterConfirmation ==
    \A f \in DOMAIN files : ConfirmedOnChain(files[f].account_address)

C1_Witness ==
    /\ DOMAIN files # {}
    /\ \E p \in Procs :
           IsCreate(p) /\ outcome[p] \in {"crash", "TransactionFailed"}

\* C2: in a create_account with a positive fund amount the faucet is called
\* only after submission, confirmation and the writing of the key file, in
\* that order.
C2_PersistBeforeFund ==
    \A p \in Procs :
        (IsCreate(p) /\ "fund_account" \in Calls(p)) =>
            /\ 0 < Pos(p, "submit_transaction")
            /\ Pos(p, "submit_transaction") < Pos(p, "wait_for_transaction")
            /\ Pos(p, "wait_for_transaction") < Pos(p, "store")
            /\ Pos(p, "store") < Pos(p, "fund_account")

\* C3: a create_account whose creation was confirmed and whose faucet call
\* failed leaves the key file of the name in place, and get_account(name)
\* gives the address that was created on the ledger.
C3_FundingFailureKeepsAccount ==
    \A p \in Procs :
        (IsCreate(p) /\ outcome[p] = "FundingFailed") =>
            /\ KeyPath(cmd[p].name) \in DOMAIN files
            /\ ConfirmedOnChain(acc[p].address)
            /\ GetAccount(cmd[p].name).address = acc[p].address

\* C4: a create_account for a name whose key file exists ends at once with
\* AccountAlreadyExists, without any call to the ledger or the faucet and
\* without touching the keystore directory.
C4_ExistingNameFailsLocally ==
    [][\A p \in Procs :
          (/\ cmd[p] = NoCmd
           /\ cmd'[p].op = "create_account"
           /\ KeyPath(cmd'[p].name) \in DOMAIN files) =>
             /\ outcome'[p] = "AccountAlreadyExists"
             /\ todo'[p] = << >>
             /\ trace'[p] = << >>
             /\ UNCHANGED <<keys_dir, files, ledger, balance>>]_vars

C4_Witness ==
    \E p \in Procs :
        /\ IsCreate(p)
        /\ outcome[p] = "AccountAlreadyExists"
        /\ KeyPath(cmd[p].name) \in DOMAIN files

\* C5: a create_account whose submission or confirmation failed has written
\* no key file, created no directory and called the faucet not at all.
C5_FailedCreationWritesNothing ==
    \A p \in Procs :
        (IsCreate(p) /\ outcome[p] = "TransactionFailed") =>
            Calls(p) \cap {"fund_account", "mkdir", "store"} = {}

C5_Witness ==
    \E p \in Procs :
        /\ IsCreate(p)
        /\ outcome[p] = "TransactionFailed"
        /\ cmd[p].amount > 0
        /\ "wait_for_transaction" \in Calls(p)

\* C6: check and store of create_account are one atomic reservation: of the
\* creates of one name at most one returns successfully.
C6_AtomicReservation ==
    \A c1, c2 \in created : c1.name = c2.name => c1.address = c2.address

\* C7: the names load_accounts enumerates besides root are exactly the names
\* whose create_account returned, and no directory entry is named root.
C7_EnumerationIsCreatedNames ==
    /\ \A key_files \in GlobOrders :
           DictKeys(LoadAccounts(key_files)) \ {ROOT}
               = {c.name : c \in created}
    /\ \A f \in DOMAIN files : GlobMatch(f) => Stem(f) # ROOT

\* C8: when create_account(name) returns, get_account(name) is an account
\* with the address that was the argument of its create-account transaction.
C8_CreateThenGet ==
    [][\A p \in Procs :
          (IsCreate(p) /\ outcome[p] = "running" /\ outcome'[p] = "ok") =>
             /\ cmd[p].name # ROOT
             /\ GetAccount(cmd[p].name)' # None
             /\ <<GetAccount(cmd[p].name)'.address>>
                    = ledger[tx_hash[p]].arguments
             /\ ledger[tx_hash[p]].function = CREATE_FN]_vars

C8_Witness ==
    \E p \in Procs :
        /\ IsCreate(p)
        /\ outcome[p] = "ok"
        /\ <<GetAccount(cmd[p].name).address>> = ledger[tx_hash[p]].arguments

\* C9: mint, fund_account and approve_coin for a name that is neither root
\* nor a key file end at once with AccountNotFound, without any call to the
\* ledger or the faucet.
C9_UnknownNameIssuesNoCall ==
    [][\A p \in Procs :
          (/\ cmd[p] = NoCmd
           /\ cmd'[p].op \in {"mint", "fund_account", "approve_coin"}
           /\ cmd'[p].name # ROOT
           /\ KeyPath(cmd'[p].name) \notin DOMAIN files) =>
             /\ outcome'[p] = "AccountNotFound"
             /\ todo'[p] = << >>
             /\ trace'[p] = << >>
             /\ UNCHANGED <<keys_dir, files, ledger, balance>>]_vars

C9_Witness ==
    /\ \E p \in Procs : cmd[p].op = "mint" /\ outcome[p] = "AccountNotFound"
    /\ \E p \in Procs :
           cmd[p].op \in {"fund_account", "approve_coin"}
               /\ outcome[p] = "AccountNotFound"

\* C10: every row list_accounts prints pairs the i-th account of the listing
\* with the balance that was queried for that account's address, in the
\* order of the listing, whatever the order in which the queries completed.
C10_RowsAligned ==
    \A p \in Procs :
        (cmd[p].op = "list_accounts" /\ outcome[p] = "ok") =>
            /\ Len(table[p]) = Len(accounts[p])
            /\ \A i \in 1..Len(table[p]) :
                   /\ table[p][i].name = accounts[p][i][1]
                   /\ table[p][i].address = accounts[p][i][2].address
                   /\ table[p][i].balance.of = table[p][i].address

C10_Witness ==
    \E p \in Procs :
        /\ cmd[p].op = "list_accounts"
        /\ outcome[p] = "ok"
        /\ Len(completed[p]) >= 2
        /\ completed[p][1] > completed[p][2]

\* the step is taken by process p
StepOf(p) ==
    <<cmd[p], todo[p], trace[p], outcome[p], futures[p]>>'
        # <<cmd[p], todo[p], trace[p], outcome[p], futures[p]>>

\* the calls of p to the faucet, as positions of its trace
FundCalls(p) ==
    {i \in 1..Len(trace[p]) : trace[p][i].call = "fund_account"}

\* C11: create_account("root") ends at once with ReservedName, whatever the
\* keystore directory holds, without any call to the ledger or the faucet
\* and without touching the keystore directory.
C11_RootIsReserved ==
    [][\A p \in Procs :
          (/\ cmd[p] = NoCmd
           /\ cmd'[p].op = "create_account"
           /\ cmd'[p].name = ROOT) =>
             /\ outcome'[p] = "ReservedName"
             /\ todo'[p] = << >>
             /\ trace'[p] = << >>
             /\ UNCHANGED <<keys_dir, files, ledger, balance>>]_vars

C11_Witness ==
    \E p \in Procs :
        /\ IsCreate(p)
        /\ cmd[p].name = ROOT
        /\ outcome[p] = "ReservedName"
        /\ DOMAIN files # {}

\* C12: create_account, mint and approve_coin return successfully only
\* after their transaction was submitted and then confirmed, and a create
\* whose confirmation failed has written nothing to the keystore directory.
C12_SubmitThenConfirm ==
    \A p \in Procs :
        /\ (cmd[p].op \in {"create_account", "mint", "approve_coin"}
                /\ outcome[p] = "ok") =>
              /\ tx_hash[p] \in DOMAIN ledger
              /\ ledger[tx_hash[p]].status = "success"
              /\ 0 < Pos(p, "wait_for_transaction")
              /\ \E i \in 1..(Pos(p, "wait_for_transaction") - 1) :
                     trace[p][i].call
                         \in {"submit_transaction", "submit_bcs_transaction"}
        /\ (cmd[p].op \in {"create_account", "mint", "approve_coin"}
                /\ tx_hash[p] \in DOMAIN ledger
                /\ ledger[tx_hash[p]].status # "success"
                /\ "wait_for_transaction" \in Calls(p)) =>
              /\ outcome[p] = "TransactionFailed"
              /\ Calls(p) \cap {"mkdir", "store"} = {}

C12_Witness ==
    /\ \E p \in Procs :
           /\ cmd[p].op \in {"mint", "approve_coin"}
           /\ outcome[p] = "ok"
    /\ \E p \in Procs :
           /\ IsCreate(p)
           /\ outcome[p] = "TransactionFailed"
           /\ "wait_for_transaction" \in Calls(p)

C16_RetryCreatesAgain ==
    [][\A p \in Procs :
          (/\ cmd[p] = NoCmd
           /\ cmd'[p].op = "create_account"
           /\ cmd'[p].name # ROOT
           /\ KeyPath(cmd'[p].name) \notin DOMAIN files) =>
             /\ outcome'[p] = "running"
             /\ todo'[p] # << >>
             /\ Head(todo'[p]) = "submit"
             /\ acc'[p] # None
             /\ \A h \in DOMAIN ledger :
                    ledger[h].arguments # <<acc'[p].address>>]_vars

C16_Witness ==
    \E p, q \in Procs :
        /\ p # q
        /\ IsCreate(p) /\ IsCreate(q)
        /\ cmd[p].name = cmd[q].name
        /\ outcome[p] \in {"crash", "FundingFailed", "FileNotFoundError"}
        /\ "store" \notin Calls(p)
        /\ ConfirmedOnChain(acc[p].address)
        /\ ConfirmedOnChain(acc[q].address)
        /\ acc[p].address # acc[q].address

\* C17: create_account calls the faucet only with a positive fund amount
\* and only after its creation was confirmed, at most once, for the address
\* it generated and the amount it was given; a create with a positive
\* amount that got past the confirmation has called it exactly once.
C17_FaucetIffPositive ==
    \A p \in Procs :
        IsCreate(p) =>
            /\ Cardinality(FundCalls(p)) <= 1
            /\ \A i \in FundCalls(p) :
                   /\ cmd[p].amount > 0
                   /\ trace[p][i].address = acc[p].address
                   /\ trace[p][i].amount = cmd[p].amount
                   /\ ConfirmedOnChain(acc[p].address)
                   /\ 0 < Pos(p, "wait_for_transaction")
                   /\ Pos(p, "wait_for_transaction") < i
            /\ (cmd[p].amount > 0 /\ Calls(p) \cap {"mkdir", "store"} # {})
                   => FundCalls(p) # {}
            /\ (cmd[p].amount > 0 /\ outcome[p] = "ok") => FundCalls(p) # {}

C17_Witness ==
    /\ \E p \in Procs :
           IsCreate(p) /\ outcome[p] = "ok" /\ cmd[p].amount > 0
    /\ \E p \in Procs :
           IsCreate(p) /\ outcome[p] = "ok" /\ cmd[p].amount <= 0

\* C18: a key file, once written, keeps its content in every later state:
\* no step overwrites or deletes it.
C18_KeyFilesNeverChange ==
    [][\A f \in DOMAIN files :
          f \in DOMAIN files' /\ files'[f] = files[f]]_vars

\* C19: list_accounts, and the get_account lookup with which mint,
\* fund_account and approve_coin begin, leave the keystore directory, the
\* ledger's transactions and the balances unchanged; list_accounts calls
\* nothing but account_balance.
C19_LookupsAreReadOnly ==
    [][\A p \in Procs :
          /\ (StepOf(p) /\ cmd'[p].op = "list_accounts") =>
                /\ UNCHANGED <<keys_dir, files, ledger, balance>>
                /\ \A i \in 1..Len(trace'[p]) :
                       trace'[p][i].call = "account_balance"
          /\ (cmd[p] = NoCmd
                /\ cmd'[p].op \in {"mint", "fund_account", "approve_coin"}) =>
                /\ UNCHANGED <<keys_dir, files, ledger, balance>>
                /\ trace'[p] = << >>]_vars

C19_Witness ==
    \E p \in Procs :
        /\ cmd[p].op = "list_accounts"
        /\ outcome[p] = "ok"
        /\ ~keys_dir
        /\ "account_balance" \in Calls(p)

\* d is the directory start or one of its ancestors
IsAncestorOrSelf(d, start) ==
    Len(d) <= Len(start) /\ SubSeq(start, 1, Len(d)) = d

\* the entry of the profile in the settings document, Null when some key on
\* the way to it is absent
ProfilePresent ==
    /\ config_file.kind = "yaml"
    /\ config_file.doc.kind = "map"
    /\ "profiles" \in DOMAIN config_file.doc.items
    /\ config_file.doc.items["profiles"].kind = "map"
    /\ profile \in DOMAIN config_file.doc.items["profiles"].items

ProfileEntry == config_file.doc.items["profiles"].items[profile]

\* C14: find_config_dir gives the entry of the nearest of the directories
\* start, parent of start, ..., root that has the entry, and None (no
\* exception) when none of them has it.
C14_NearestAncestor ==
    stage # "start" =>
        LET hits == {d \in aptos_dirs : IsAncestorOrSelf(d, cwd)}
        IN  IF hits = {} THEN aptos_dir = NoPath /\ startup = "SdkDirNotFound"
            ELSE \E d \in hits :
                     /\ aptos_dir = SomePath(Append(d, APTOS))
                     /\ \A e \in hits : Len(e) <= Len(d)

C14_Witness ==
    /\ stage # "start"
    /\ aptos_dir.found
    /\ Cardinality({d \in aptos_dirs : IsAncestorOrSelf(d, cwd)}) >= 2
    /\ cwd \notin aptos_dirs

\* C15: once the .aptos directory is found, a missing or unparsable
\* config.yaml ends the start-up with the error of reading it, an absent
\* profile and a null or empty profile end it with ProfileNotFound, and
\* none of these ends it with SdkDirNotFound.
C15_ProfileOutcomes ==
    (stage = "done" /\ aptos_dir.found) =>
        /\ config_file.kind = "missing" => startup = "FileNotFoundError"
        /\ config_file.kind = "unparsable" => startup = "YAMLError"
        /\ (config_file.kind = "yaml" /\ ~ProfilePresent)
               => startup = "ProfileNotFound"
        /\ (ProfilePresent /\ ProfileEntry \in {Null, Map(<< >>)})
               => startup = "ProfileNotFound"
        /\ startup # "SdkDirNotFound"

C15_Witness ==
    /\ stage = "done"
    /\ aptos_dir.found
    /\ ProfilePresent
    /\ ProfileEntry = Map(<< >>)
    /\ startup = "ProfileNotFound"

====
